---- MODULE Spec2Model ----
(***************************************************************************)
(* NimmoAutoChatbot: the WhatsApp dialogue controller                      *)
(* (src/src/services/whatsappService.ts, client.on('message')), the        *)
(* Session model it persists through (src/unnamed/part_002,                *)
(* UserIntentSchema) and the administrative reset (src/clearAllChats.js).  *)
(*                                                                         *)
(* One handled message is one step: the handler's awaits are taken in      *)
(* program order with nothing of the same sender in between.  The state    *)
(* is the Session collection (`store`) and a record of the last handled    *)
(* turn (`turn`): the inputs the turn received from its collaborators and  *)
(* what the handler computed, assigned and sent.  `match` is one run of    *)
(* the search workflow on a collection of offers, for the properties of    *)
(* the Matching Engine that hold of every catalog.  `race` is two          *)
(* invocations of the handler for one sender whose awaits interleave: the  *)
(* collection they share, and each invocation's position and locals.       *)
(***************************************************************************)
EXTENDS Integers, Sequences, FiniteSets, TLC

VARIABLES store, turn, match, race

vars == <<store, turn, match, race>>

(***************************************************************************)
(* Bounds of the model.                                                    *)
(***************************************************************************)
\* lastProposedIds grows without limit in the code; searches are cut off here
MaxProposed == 2
\* at most this many slots are carried non-null by one slot extraction
MaxExtract == 1
\* at most this many contact fields are carried by one contact extraction
MaxInfo == 1
\* a contact record of the stored collection knows at most this many fields,
\* or misses at most this many
MaxStored == 1
\* a collection of offers the search workflow is run on holds at most this
\* many documents
MaxCatalog == 6

(***************************************************************************)
(* Values.                                                                 *)
(***************************************************************************)
\* undefined / null / absent, for string-valued fields
NULL == "NULL"
\* a falsy budget: `json.budget || undefined`, `if (intent.budget)`
NoBudget == 0
\* JSON null in the number-valued contact field nombreJours
NullDays == -1
\* no document for this sender in the collection
NoDoc == [status |-> "absent"]

Senders == {"237600000001@c.us"}

Services == {"villa", "location"}
Towns == {"Douala"}
Budgets == {100}
Types == {"vehicule", "immobilier"}
Languages == {"en"}

(***************************************************************************)
(* Strings: String.prototype.includes and toLowerCase.                     *)
(***************************************************************************)
Includes(s, k) ==
    \E i \in 0..(Len(s) - Len(k)) : SubSeq(s, i + 1, i + Len(k)) = k

LowerChar(c) ==
    CASE c = "A" -> "a" [] c = "B" -> "b" [] c = "C" -> "c" [] c = "D" -> "d"
      [] c = "E" -> "e" [] c = "F" -> "f" [] c = "G" -> "g" [] c = "H" -> "h"
      [] c = "I" -> "i" [] c = "J" -> "j" [] c = "K" -> "k" [] c = "L" -> "l"
      [] c = "M" -> "m" [] c = "N" -> "n" [] c = "O" -> "o" [] c = "P" -> "p"
      [] c = "Q" -> "q" [] c = "R" -> "r" [] c = "S" -> "s" [] c = "T" -> "t"
      [] c = "U" -> "u" [] c = "V" -> "v" [] c = "W" -> "w" [] c = "X" -> "x"
      [] c = "Y" -> "y" [] c = "Z" -> "z" [] OTHER -> c

RECURSIVE ToLower(_)
ToLower(s) ==
    IF Len(s) = 0 THEN ""
    ELSE LowerChar(SubSeq(s, 1, 1)) \o ToLower(SubSeq(s, 2, Len(s)))

\* `x || ''` followed by toLowerCase, and `x?.toLowerCase() || ''`
LowerOrEmpty(x) == IF x = NULL THEN "" ELSE ToLower(x)

(***************************************************************************)
(* The Inventory Store: two collections, each in its natural (insertion)   *)
(* order.  An offer carries the fields the handler reads.                  *)
(***************************************************************************)
Immobilier ==
    << [id |-> 12, CategorieFr |-> "Villa", description |-> "Belle villa",
        localisationFr |-> "Douala", villeFr |-> NULL, prix |-> 100,
        modeleFr |-> NULL, marqueFr |-> NULL, nom |-> NULL],
       [id |-> 11, CategorieFr |-> "Location", description |-> "Villa a louer",
        localisationFr |-> "Douala Bonapriso", villeFr |-> NULL, prix |-> 120,
        modeleFr |-> NULL, marqueFr |-> NULL, nom |-> NULL],
       [id |-> 13, CategorieFr |-> "Villa", description |-> "Villa",
        localisationFr |-> "Yaounde", villeFr |-> NULL, prix |-> 100,
        modeleFr |-> NULL, marqueFr |-> NULL, nom |-> NULL] >>

Vehicule ==
    << [id |-> 21, CategorieFr |-> "Location", description |-> "Toyota location",
        localisationFr |-> NULL, villeFr |-> "Douala", prix |-> 200,
        modeleFr |-> "Corolla", marqueFr |-> "Toyota", nom |-> "Toyota Corolla"],
       [id |-> 22, CategorieFr |-> "Vente", description |-> "Peugeot",
        localisationFr |-> NULL, villeFr |-> "Douala", prix |-> 100,
        modeleFr |-> "208", marqueFr |-> "Peugeot", nom |-> "Peugeot 208"] >>

\* `selectedOffer` when offers[interestedIndex] is undefined, and an absent
\* selectedOfferDetails: every `?.` read of it yields undefined
NoOffer ==
    [id |-> 0, CategorieFr |-> NULL, description |-> NULL,
     localisationFr |-> NULL, villeFr |-> NULL, prix |-> 0,
     modeleFr |-> NULL, marqueFr |-> NULL, nom |-> NULL]

\* userIntentObj.type === 'vehicule' ? Vehicule : Immobilier
Model(type) == IF type = "vehicule" THEN Vehicule ELSE Immobilier

\* Array.prototype.filter is SelectSeq: the elements that pass, in the order
\* of the array

\* the last n elements of the array
SliceEnd(seq, n) == SubSeq(seq, IF Len(seq) < n THEN 1 ELSE Len(seq) - n + 1, Len(seq))

\* Array.prototype.slice(0, n)
Slice(seq, n) == SubSeq(seq, 1, IF Len(seq) < n THEN Len(seq) ELSE n)

\* Array.prototype.map(m => m.id)
Ids(offers) == [i \in 1..Len(offers) |-> offers[i].id]

\* Array.prototype.includes on an array of ids
HasId(ids, id) == \E i \in 1..Len(ids) : ids[i] = id

\* ascending order of the unique index on `id`
RECURSIVE SortById(_)
SortById(offers) ==
    IF Len(offers) = 0 THEN <<>>
    ELSE LET lo == CHOOSE i \in 1..Len(offers) :
                       \A j \in 1..Len(offers) : offers[i].id <= offers[j].id
         IN <<offers[lo]>> \o
            SortById([i \in 1..(Len(offers) - 1) |->
                         IF i < lo THEN offers[i] ELSE offers[i + 1]])

\* Model.find({ id: { $in: offerIds } }).lean(): the documents whose id is in
\* offerIds, each once; no sort is requested, so they come in the order of
\* the plan the database picks: the collection's natural order or the order
\* of the index on id.  Never in the order of offerIds.
find(type, offerIds, byIndex) ==
    LET found == SelectSeq(Model(type), LAMBDA o : HasId(offerIds, o.id))
    IN IF byIndex THEN SortById(found) ELSE found

\* the ids of the two catalogs
CatalogIds ==
    {Immobilier[i].id : i \in 1..Len(Immobilier)} \cup {Vehicule[i].id : i \in 1..Len(Vehicule)}

\* the ids of a set, as an array
RECURSIVE AsArray(_)
AsArray(ids) ==
    IF ids = {} THEN <<>> ELSE LET id == CHOOSE x \in ids : TRUE IN <<id>> \o AsArray(ids \ {id})

\* find, evaluated once for each catalog, set of ids and plan of the model
\* ($in looks at which ids are listed, not at their order or repetition)
findTable ==
    [q \in BOOLEAN \X (SUBSET CatalogIds) \X BOOLEAN |->
        find(IF q[1] THEN "vehicule" ELSE "immobilier", AsArray(q[2]), q[3])] @@ <<>>

\* a find that does not filter by id
FindAny(type, offerIds, byIndex) == Model(type)

FindByIds(type, offerIds, byIndex) ==
    findTable[<<type = "vehicule", {offerIds[i] : i \in 1..Len(offerIds)}, byIndex>>]

(***************************************************************************)
(* The Session document and the schema it is saved through.                *)
(***************************************************************************)
\* the paths of UserIntentSchema (userId is the key of `store`; lastUpdated,
\* localisationFr and localisationEn are never read by the handler)
SchemaPaths ==
    {"service", "town", "budget", "type", "language", "lastProposedIds", "status"}

\* status: { type: String, enum: ['collecting', 'ready'], default: 'collecting' }
StatusEnum == {"collecting", "ready"}

\* the keys of a contact record
InfoKeys == {"nom", "prenom", "villeActuelle", "email", "nombreJours", "dateDebut"}

\* a document as the collection holds it: the schema's paths, and the four
\* fields the handler reads from toObject() that the schema does not declare
NewDoc(intent) ==
    [service |-> intent.service, town |-> intent.town, budget |-> intent.budget,
     type |-> intent.type, language |-> intent.language,
     lastProposedIds |-> <<>>, status |-> "collecting",
     userInfo |-> <<>>, selectedOfferDetails |-> NoOffer,
     selectedOfferId |-> 0, requestType |-> NULL]

\* userIntent.save() after the assignments `assigned` (path -> value) made on
\* the hydrated document.  Validation runs on the modified paths: a status
\* outside the enum rejects the save and nothing is written.  A property that
\* is not a path of the schema is a plain property of the object and is not
\* written.
SaveThrows(assigned) ==
    "status" \in DOMAIN assigned /\ assigned["status"] \notin StatusEnum

save(doc, assigned) ==
    IF SaveThrows(assigned) THEN doc
    ELSE [k \in DOMAIN doc |->
             IF k \in DOMAIN assigned /\ k \in SchemaPaths THEN assigned[k] ELSE doc[k]]

(***************************************************************************)
(* NLU slot extraction (extractUserIntent).                                *)
(***************************************************************************)
NullIntent ==
    [service |-> NULL, town |-> NULL, budget |-> NoBudget, type |-> NULL,
     language |-> NULL]

SlotNames == {"service", "town", "budget", "type", "language"}

\* the null of a slot: budget is a number, the others are strings
SlotNull(f) == IF f = "budget" THEN NoBudget ELSE NULL

\* the slots a JSON answer carries non-null
Carried(json) == {f \in SlotNames : json[f] # SlotNull(f)}

\* the slots a search needs (line 439)
SearchSlots == {"service", "town", "budget", "type"}

\* the JSON objects the completion can hold: a message that tells little, or
\* a message that states a whole request
JsonIntents ==
    {j \in [service : Services \cup {NULL}, town : Towns \cup {NULL},
            budget : Budgets \cup {NoBudget}, type : Types \cup {NULL},
            language : Languages \cup {NULL}] :
        Cardinality(Carried(j)) <= MaxExtract \/ Carried(j) = SearchSlots}

\* what the completion call does: it throws, or it returns text that is not
\* JSON, or it returns a JSON object
IntentReplies ==
    {[kind |-> "throw", json |-> NullIntent], [kind |-> "malformed", json |-> NullIntent]}
        \cup {[kind |-> "json", json |-> j] : j \in JsonIntents}

\* JSON.parse in try/catch: each field `json.f || undefined`, {} on a parse
\* error; a failed completion call is not caught here
extractUserIntent(reply) ==
    IF reply.kind = "json"
    THEN [f \in SlotNames |-> reply.json[f]]
    ELSE NullIntent

\* a merge that assigns whatever the extraction holds
MergeFieldAlways(old, new, null) == new

\* lines 168-172: if (intent.f) userIntent.f = intent.f
MergeField(old, new, null) == IF new # null THEN new ELSE old

MergeIntent(doc, intent) ==
    [service |-> MergeField(doc.service, intent.service, NULL),
     town |-> MergeField(doc.town, intent.town, NULL),
     budget |-> MergeField(doc.budget, intent.budget, NoBudget),
     type |-> MergeField(doc.type, intent.type, NULL),
     language |-> MergeField(doc.language, intent.language, NULL)]

(***************************************************************************)
(* Outbound messages.  A message is its kind, the offers it shows and what *)
(* it asks about.                                                          *)
(***************************************************************************)
Msg(kind, ids, about) == [kind |-> kind, ids |-> ids, about |-> about]

Apology == Msg("apology", <<>>, {})

(***************************************************************************)
(* Refusal and interest classification (lines 193-270).                    *)
(***************************************************************************)
\* refusalCheck.trim().toLowerCase().startsWith('y'); a failed call is caught
\* and leaves isRefusal false
RefusalReplies == {"yes", "no", "throw"}

startsWithY(reply) ==
    reply # "throw" /\ Len(reply) > 0 /\ ToLower(SubSeq(reply, 1, 1)) = "y"

\* startsWithY, evaluated once for each answer of the model
refusals == [reply \in RefusalReplies |-> startsWithY(reply)] @@ <<>>

isRefusal(reply) == refusals[reply]

interestKeywords ==
    {"celle ci", "celui ci", "celle-ci", "celui-ci",
     "this one", "that one", "this", "that",
     "je veux", "i want", "je prends", "i take",
     "je choisis", "i choose", "je sélectionne", "i select",
     "ok", "d'accord", "alright", "yes", "oui",
     "parfait", "perfect", "super", "great"}

\* the message bodies of the model
Bodies == {"Bonjour", "Je veux celui-ci", "celle ci"}

\* interestKeywords.some(keyword => messageLower.includes(keyword))
keywordHit(body) == \E k \in interestKeywords : Includes(ToLower(body), k)

\* keywordHit, evaluated once for each body of the model
keywordHits == [body \in Bodies |-> keywordHit(body)] @@ <<>>

\* message.hasQuotedMsg || interestKeywords.some(...)
isReply(body, hasQuotedMsg) == hasQuotedMsg \/ keywordHits[body]

\* the answers of the interest classification call
InterestReplies == {"1", "2", "none", "throw"}

\* Number.NaN: it fails `!isNaN(idx)`
NaN == -1

\* parseInt(interestCheck.trim(), 10)
parseInt(text) ==
    CASE text = "1" -> 1 [] text = "2" -> 2 [] text = "3" -> 3 [] text = "4" -> 4
      [] text = "5" -> 5 [] text = "6" -> 6 [] text = "7" -> 7 [] text = "8" -> 8
      [] text = "9" -> 9 [] OTHER -> NaN

\* interestedIndex === null
NoIndex == -1

\* the fallback of lines 258-264: the spaced forms only
thisOneHit(body) ==
    LET messageLower == ToLower(body)
    IN \/ Includes(messageLower, "celui ci") \/ Includes(messageLower, "celle ci")
       \/ Includes(messageLower, "this one") \/ Includes(messageLower, "that one")

\* thisOneHit, evaluated once for each body of the model
thisOneHits == [body \in Bodies |-> thisOneHit(body)] @@ <<>>

saysThisOne(body) == thisOneHits[body]

\* an interest classification called whenever something was proposed
callsInterestAnyLength(lastProposedIds, body, hasQuotedMsg) ==
    Len(lastProposedIds) > 0 /\ isReply(body, hasQuotedMsg)

\* is the interest classification call made on this turn (line 232)
callsInterest(lastProposedIds, body, hasQuotedMsg) ==
    Len(lastProposedIds) > 1 /\ isReply(body, hasQuotedMsg)

interestedIndex(lastProposedIds, body, hasQuotedMsg, reply) ==
    IF Len(lastProposedIds) = 0 \/ ~isReply(body, hasQuotedMsg) THEN NoIndex
    ELSE IF Len(lastProposedIds) = 1 THEN 0
    ELSE IF reply = "throw" THEN NoIndex
    ELSE LET idx == parseInt(reply)
         IN IF idx # NaN /\ idx >= 1 /\ idx <= Len(lastProposedIds) THEN idx - 1
            ELSE IF saysThisOne(body) THEN Len(lastProposedIds) - 1
            ELSE NoIndex

(***************************************************************************)
(* Rental detection (lines 301-306 and 338-343).                           *)
(***************************************************************************)
\* a test that looks at the selected offer only
rentalTermsOfOffer(service, offer) ==
    \/ Includes(LowerOrEmpty(offer.CategorieFr), "location")
    \/ Includes(LowerOrEmpty(offer.description), "location")
    \/ Includes(LowerOrEmpty(offer.description), "louer")

rentalTerms(service, offer) ==
    \/ Includes(LowerOrEmpty(service), "location")
    \/ Includes(LowerOrEmpty(service), "louer")
    \/ Includes(LowerOrEmpty(service), "rent")
    \/ Includes(LowerOrEmpty(offer.CategorieFr), "location")
    \/ Includes(LowerOrEmpty(offer.description), "location")
    \/ Includes(LowerOrEmpty(offer.description), "louer")

\* the offers a document can hold as its selectedOfferDetails
Offers == {Immobilier[i] : i \in 1..Len(Immobilier)}
              \cup {Vehicule[i] : i \in 1..Len(Vehicule)} \cup {NoOffer}

\* rentalTerms, evaluated once for each service and offer of the model
rentalTable ==
    [q \in (Services \cup {NULL}) \X Offers |-> rentalTerms(q[1], q[2])] @@ <<>>

isRental(service, offer) == rentalTable[<<service, offer>>]

(***************************************************************************)
(* Contact information (lines 331-437, 752-775, 806-863).                  *)
(***************************************************************************)
\* the value the model gives each contact field when the message supplies it
InfoValue(k) ==
    CASE k = "nom" -> "Bahanack" [] k = "prenom" -> "Georges"
      [] k = "villeActuelle" -> "Douala" [] k = "email" -> "g@nimmo.cm"
      [] k = "dateDebut" -> "01/12/2026" [] OTHER -> 3

\* JSON null for a contact field
InfoNull(k) == IF k = "nombreJours" THEN NullDays ELSE NULL

\* `!userInfo.k` is false: the key is there and its value is not falsy
Has(userInfo, k) ==
    /\ k \in DOMAIN userInfo
    /\ IF k = "nombreJours"
       THEN userInfo[k] # NullDays /\ userInfo[k] # 0
       ELSE userInfo[k] # NULL /\ userInfo[k] # ""

\* the keys the prompt's JSON template names
TemplateKeys(rental) ==
    IF rental THEN InfoKeys ELSE {"nom", "prenom", "villeActuelle"}

\* a phone number the sender writes in a message: not the sender id's
OtherPhone == "699000000"

\* the JSON objects the completion can hold: the fields found in the message,
\* and for the others of the template either null ("if not found, use null")
\* or no key at all (as in the prompt's examples); and an object with a key
\* the template does not name, the phone number found in the message
InfoJsons(rental) ==
    LET found == {c \in SUBSET TemplateKeys(rental) : Cardinality(c) <= MaxInfo}
    IN {[k \in c |-> InfoValue(k)] : c \in found}
         \cup {[k \in TemplateKeys(rental) |->
                   IF k \in c THEN InfoValue(k) ELSE InfoNull(k)] : c \in found}
         \cup {[telephone |-> OtherPhone],
               [nom |-> InfoValue("nom"), telephone |-> OtherPhone]}

InfoReplies(rental) ==
    {[kind |-> "throw", json |-> <<>>], [kind |-> "malformed", json |-> <<>>]}
        \cup {[kind |-> "json", json |-> j] : j \in InfoJsons(rental)}

\* null: the call or JSON.parse threw, or no field of the object is truthy
NoInfo == <<>>

\* an extraction that returns the parsed object even when it holds no value
extractUserInfoAsIs(reply) ==
    IF reply.kind = "json" THEN reply.json ELSE NoInfo

extractUserInfo(reply) ==
    IF reply.kind = "json" /\ \E k \in InfoKeys : Has(reply.json, k)
    THEN reply.json
    ELSE NoInfo

\* message.from.replace('@c.us', ''): the first occurrence is removed
stripSuffix(from) ==
    LET at == {i \in 1..(Len(from) - 4) : SubSeq(from, i, i + 4) = "@c.us"}
    IN IF at = {} THEN from
       ELSE LET i == CHOOSE j \in at : \A l \in at : j <= l
            IN SubSeq(from, 1, i - 1) \o SubSeq(from, i + 5, Len(from))

\* stripSuffix, evaluated once for each sender of the model
phoneNumbers == [from \in Senders |-> stripSuffix(from)] @@ <<>>

phoneNumber(from) == phoneNumbers[from]

\* { ...existingUserInfo, ...userInfo, telephone: phoneNumber }: every key of
\* the later object replaces the earlier one's, whatever its value
mergedUserInfo(existingUserInfo, userInfo, phone) ==
    [k \in DOMAIN existingUserInfo \cup DOMAIN userInfo \cup {"telephone"} |->
        IF k = "telephone" THEN phone
        ELSE IF k \in DOMAIN userInfo THEN userInfo[k]
        ELSE existingUserInfo[k]]

\* nextField === null
NoField == "null"

\* an order of questions in which a rental's email comes before the city
getNextFieldEmailFirst(userInfo, rental, language) ==
    IF ~Has(userInfo, "nom") /\ ~Has(userInfo, "prenom")
    THEN (IF language = "fr" THEN "nom_et_prenom" ELSE "first_and_last_name")
    ELSE IF rental /\ ~Has(userInfo, "email") THEN "email"
    ELSE IF ~Has(userInfo, "villeActuelle")
    THEN (IF language = "fr" THEN "ville_actuelle" ELSE "current_city")
    ELSE IF rental /\ ~Has(userInfo, "nombreJours")
    THEN (IF language = "fr" THEN "nombre_jours" ELSE "number_of_days")
    ELSE IF rental /\ ~Has(userInfo, "dateDebut")
    THEN (IF language = "fr" THEN "date_debut" ELSE "start_date")
    ELSE NoField

getNextFieldToAsk(userInfo, rental, language) ==
    IF ~Has(userInfo, "nom") /\ ~Has(userInfo, "prenom")
    THEN (IF language = "fr" THEN "nom_et_prenom" ELSE "first_and_last_name")
    ELSE IF ~Has(userInfo, "villeActuelle")
    THEN (IF language = "fr" THEN "ville_actuelle" ELSE "current_city")
    ELSE IF rental /\ ~Has(userInfo, "email") THEN "email"
    ELSE IF rental /\ ~Has(userInfo, "nombreJours")
    THEN (IF language = "fr" THEN "nombre_jours" ELSE "number_of_days")
    ELSE IF rental /\ ~Has(userInfo, "dateDebut")
    THEN (IF language = "fr" THEN "date_debut" ELSE "start_date")
    ELSE NoField

\* the switch of lines 393-433: what the question sent asks for
nextQuestionMsg(lang, nextField) ==
    IF lang = "fr"
    THEN CASE nextField = "nom_et_prenom" -> Msg("question", <<>>, {"nom", "prenom"})
           [] nextField = "ville_actuelle" -> Msg("question", <<>>, {"villeActuelle"})
           [] nextField = "email" -> Msg("question", <<>>, {"email"})
           [] nextField = "nombre_jours" -> Msg("question", <<>>, {"nombreJours"})
           [] nextField = "date_debut" -> Msg("question", <<>>, {"dateDebut"})
           [] OTHER -> Msg("question", <<>>, {})
    ELSE CASE nextField = "first_and_last_name" -> Msg("question", <<>>, {"nom", "prenom"})
           [] nextField = "current_city" -> Msg("question", <<>>, {"villeActuelle"})
           [] nextField = "email" -> Msg("question", <<>>, {"email"})
           [] nextField = "number_of_days" -> Msg("question", <<>>, {"nombreJours"})
           [] nextField = "start_date" -> Msg("question", <<>>, {"dateDebut"})
           [] OTHER -> Msg("question", <<>>, {})

(***************************************************************************)
(* The Matching Engine (lines 444-543 and 607-632).                        *)
(***************************************************************************)
\* localisationFr for immobilier, villeFr for vehicles
offerTown(type, doc) ==
    IF type = "immobilier" THEN LowerOrEmpty(doc.localisationFr)
    ELSE LowerOrEmpty(doc.villeFr)

\* a town filter that only looks for the user's town in the offer's town
townMatchOneWay(type, userTown, doc) ==
    Includes(offerTown(type, doc), userTown)

townMatch(type, userTown, doc) ==
    \/ Includes(offerTown(type, doc), userTown)
    \/ Includes(userTown, offerTown(type, doc))

\* lines 458-468: allDocs.filter(...)
townMatches(allDocs, type, userTown) ==
    SelectSeq(allDocs, LAMBDA doc : townMatch(type, userTown, doc))

furnishedCategories == {"appartements meublés", "studio meublés", "maison meublés"}

serviceMatch(type, userService, doc) ==
    LET description == LowerOrEmpty(doc.description)
        categorie == LowerOrEmpty(doc.CategorieFr)
    IN IF type = "immobilier"
          /\ (Includes(userService, "meublé") \/ Includes(userService, "meuble"))
       THEN \/ \E cat \in furnishedCategories : Includes(categorie, ToLower(cat))
            \/ Includes(description, userService)
       ELSE IF type = "vehicule"
       THEN \/ Includes(description, userService)
            \/ Includes(categorie, userService)
            \/ Includes(LowerOrEmpty(doc.modeleFr), userService)
            \/ Includes(LowerOrEmpty(doc.marqueFr), userService)
            \/ Includes(LowerOrEmpty(doc.nom), userService)
       ELSE \/ Includes(description, userService)
            \/ Includes(categorie, userService)

\* a service stage that passes on what the filter keeps, even nothing
serviceMatchesOnly(type, userService, townMatched) ==
    SelectSeq(townMatched, LAMBDA doc : serviceMatch(type, userService, doc))

\* lines 470-509
serviceMatches(type, userService, townMatched) ==
    IF userService = "" THEN townMatched
    ELSE LET kept == SelectSeq(townMatched, LAMBDA doc : serviceMatch(type, userService, doc))
         IN IF Len(kept) = 0 THEN townMatched ELSE kept

\* a band that leaves its two ends out
budgetMatchExclusive(userBudget, doc) ==
    4 * doc.prix > 3 * userBudget /\ 4 * doc.prix < 5 * userBudget

\* price >= userBudget - userBudget * 0.25 && price <= userBudget + userBudget * 0.25,
\* in exact arithmetic; a missing prix is 0 in the catalogs (`doc.prix || 0`)
budgetMatch(userBudget, doc) ==
    4 * doc.prix >= 3 * userBudget /\ 4 * doc.prix <= 5 * userBudget

budgetMatches(userBudget, serviceMatched) ==
    IF userBudget > 0
    THEN SelectSeq(serviceMatched, LAMBDA doc : budgetMatch(userBudget, doc))
    ELSE serviceMatched

\* lines 457-543 and 607-632 for one query on the documents allDocs of the
\* collection: each stage of the funnel, what it passes on, and what the turn
\* proposes and suggests.  `excluded` holds the ids the refusal filter
\* removes (none when the filter does not run).
matchOffers(allDocs, type, town, service, budget, excluded) ==
    LET userTown == LowerOrEmpty(town)
        userService == LowerOrEmpty(service)
        townMatched == townMatches(allDocs, type, userTown)
        serviceMatched == serviceMatches(type, userService, townMatched)
        matched == budgetMatches(budget, serviceMatched)
        suggested == IF Len(matched) = 0 THEN Slice(townMatched, 3) ELSE <<>>
        matches == SelectSeq(matched, LAMBDA m : m.id \notin excluded)
        suggestions == SelectSeq(suggested, LAMBDA x : x.id \notin excluded)
    IN [townMatches |-> townMatched,
        serviceMatches |-> serviceMatched,
        budgetMatches |-> matched,
        matches |-> matches,
        suggestions |-> suggestions,
        toPropose |-> Slice(matches, 5),
        filteredSuggestions |->
            SelectSeq(suggestions,
                   LAMBDA x : townMatch(type, userTown, x) /\ budgetMatch(budget, x))]

\* the query on the collection of its type (lines 451-455)
searchFor(type, town, service, budget, excluded) ==
    matchOffers(Model(type), type, town, service, budget, excluded)

\* searchFor, evaluated once for each query of the model
searchTable ==
    [q \in Types \X Towns \X Services \X Budgets \X (SUBSET CatalogIds) |->
        searchFor(q[1], q[2], q[3], q[4], q[5])] @@ <<>>

\* if (isRefusal && lastIds.length > 0): the ids of lastIds are filtered out
excludedIds(lastIds, refusal) ==
    IF refusal /\ Len(lastIds) > 0 THEN {lastIds[i] : i \in 1..Len(lastIds)} ELSE {}

\* a search that never runs the refusal filter
searchAll(obj, refusal) ==
    searchTable[<<obj.type, obj.town, obj.service, obj.budget, {}>>]

search(obj, refusal) ==
    searchTable[<<obj.type, obj.town, obj.service, obj.budget,
                  excludedIds(obj.lastProposedIds, refusal)>>]

(***************************************************************************)
(* The message handler (lines 157-693).                                    *)
(*                                                                         *)
(* Its inputs `m`: what the collaborators answer on this turn.             *)
(*   intentReply    the slot-extraction completion                         *)
(*   refusalReply   the refusal classification                             *)
(*   body, hasQuotedMsg   the message                                      *)
(*   interestReply  the interest classification, when it is called         *)
(*   byIndex        the plan of the find by ids, when it is run            *)
(*   infoReply      the contact-extraction completion, when it is called   *)
(*   askThrows      the reply-generation call fails, when it is called     *)
(***************************************************************************)
\* what is recorded of a turn: the sender, the branch taken, the completion
\* calls made in their order, what the interest classification answered when
\* it was called ("throw" when the call failed), what the handler computed,
\* what it assigned to the hydrated document (status, selectedOfferId,
\* requestType, mergedUserInfo), whether the catch of the whole handler ran
\* (threw), on an exception of which operation (failed), after how many
\* messages (sentBefore) and whether its own send failed (fallbackErr), the
\* offer whose message with its image could not be sent (imageErr), how the
\* slot extraction and the contact extraction answered when they were called
\* (intentReply, infoReply: "throw", "malformed" or "json"), and the messages
\* sent
NoTurn ==
    [from |-> NULL, branch |-> "none", isNewUser |-> FALSE, carried |-> {},
     calls |-> <<>>, isReply |-> FALSE, interestCheck |-> NULL,
     isRefusal |-> FALSE, interestedIndex |-> NoIndex, status |-> NULL,
     selectedOfferId |-> 0,
     requestType |-> NULL, userInfo |-> NoInfo, mergedUserInfo |-> <<>>,
     nextField |-> NoField, toPropose |-> <<>>, threw |-> FALSE, failed |-> NULL,
     sentBefore |-> 0, fallbackErr |-> FALSE, imageErr |-> 0,
     intentReply |-> NULL, infoReply |-> NULL, out |-> <<>>]

\* no run of the search workflow is recorded
NoFound ==
    [townMatches |-> <<>>, serviceMatches |-> <<>>, budgetMatches |-> <<>>,
     matches |-> <<>>, suggestions |-> <<>>, toPropose |-> <<>>,
     filteredSuggestions |-> <<>>]

NoMatch ==
    [ran |-> FALSE, allDocs |-> <<>>, type |-> NULL, town |-> NULL, service |-> NULL,
     budget |-> NoBudget, lastIds |-> <<>>, isRefusal |-> FALSE,
     found |-> NoFound, sent |-> <<>>]

\* no handlers run side by side
NoRace == [coll |-> <<>>, procs |-> <<>>, clock |-> 0]

\* lines 160-175: the document after findOne and create, or merge and save
afterMerge(d, intent) ==
    IF d = NoDoc THEN NewDoc(intent) ELSE save(d, MergeIntent(d, intent))

\* userIntentObj.language || 'fr'
langOf(obj) == IF obj.language = NULL THEN "fr" ELSE obj.language

slotsComplete(obj) ==
    obj.service # NULL /\ obj.town # NULL /\ obj.budget # NoBudget /\ obj.type # NULL

\* the branch the handler takes once the slots are merged
branchOf(d, obj, index) ==
    IF index # NoIndex /\ Len(obj.lastProposedIds) > 0 THEN "selection"
    ELSE IF obj.status = "collecting_info" THEN "info"
    ELSE IF slotsComplete(obj) THEN "search"
    ELSE IF d = NoDoc THEN "greeting"
    ELSE "ask"

\* Each step of the handler below takes the values computed so far as
\* parameters, in the order the code computes them, and yields a run: the
\* sender's document in the collection and the record of the turn when the
\* step is over, and `steps`, the awaited store, catalog and send operations
\* it went through, each with the document and the record as they were when
\* the operation was started: what stands if the operation throws.
Step(op, doc, log) == [op |-> op, doc |-> doc, log |-> log]

\* an exception leaves the try block from the operation op
Raise(log, op) ==
    [log EXCEPT !.threw = TRUE, !.failed = op, !.sentBefore = Len(log.out)]

\* lines 573-586: the message of an offer is first sent with the offer's
\* image: the image is downloaded and client.sendMessage is called with the
\* media and the text as its caption, in one operation of the model
withImage(msg) == msg.kind = "offer" /\ "image" \in msg.about

\* client.sendMessage for each of msgs, one after the other
RECURSIVE sends(_, _, _)
sends(doc, log, msgs) ==
    IF Len(msgs) = 0 THEN <<>>
    ELSE <<Step(IF withImage(Head(msgs)) THEN "sendMedia" ELSE "sendMessage", doc, log)>>
         \o sends(doc, [log EXCEPT !.out = Append(@, Head(msgs))], Tail(msgs))

\* userIntent.save() writes `saved` over obj, then msgs are sent
savedAndSent(obj, saved, log, msgs) ==
    [doc |-> saved,
     log |-> [log EXCEPT !.out = @ \o msgs],
     steps |-> <<Step("save", obj, log)>> \o sends(saved, log, msgs)]

\* the run that starts with the operations `steps`
after(steps, run) == [run EXCEPT !.steps = steps \o @]

\* lines 299-326, once selectedOffer is known and the record holds what is
\* assigned to the document
assignedSelection(obj, log, selectedOffer, requestType) ==
    IF SaveThrows([status |-> "collecting_info"])
    THEN [doc |-> obj, log |-> Raise(log, "save"), steps |-> <<>>]
    ELSE savedAndSent(obj,
                      save(obj, [selectedOfferId |-> selectedOffer.id,
                                 selectedOfferDetails |-> selectedOffer,
                                 status |-> "collecting_info",
                                 requestType |-> requestType]),
                      log,
                      <<Msg("confirmation", <<selectedOffer.id>>, {"nom", "prenom"})>>)

selected(obj, log, selectedOffer, requestType) ==
    IF selectedOffer = NoOffer THEN [doc |-> obj, log |-> log, steps |-> <<>>]
    ELSE assignedSelection(obj,
                           [log EXCEPT !.selectedOfferId = selectedOffer.id,
                                       !.status = "collecting_info",
                                       !.requestType = requestType],
                           selectedOffer, requestType)

\* line 282: offers[interestedIndex]
offerAt(offers, index) ==
    IF index + 1 <= Len(offers) THEN offers[index + 1] ELSE NoOffer

select(obj, log, selectedOffer) ==
    selected(obj, log, selectedOffer,
             IF isRental(obj.service, selectedOffer) THEN "rental" ELSE "purchase")

\* lines 273-328
selectionBranch(obj, log, byIndex) ==
    after(<<Step("find", obj, log)>>,
          select(obj, log,
                 offerAt(FindByIds(obj.type, obj.lastProposedIds, byIndex),
                         log.interestedIndex)))

\* lines 364-435, once nextField is known
informed(obj, log, userInfo, merged, nextField) ==
    IF nextField = NoField
    THEN savedAndSent(obj, save(obj, [userInfo |-> merged, status |-> "ready"]),
                      [log EXCEPT !.userInfo = userInfo, !.mergedUserInfo = merged,
                                  !.nextField = nextField, !.status = "ready"],
                      <<Msg("summary", <<>>, {})>>)
    ELSE savedAndSent(obj, save(obj, [userInfo |-> merged]),
                      [log EXCEPT !.userInfo = userInfo, !.mergedUserInfo = merged,
                                  !.nextField = nextField],
                      <<nextQuestionMsg(langOf(obj), nextField)>>)

inform(obj, log, rental, userInfo, merged) ==
    informed(obj, log, userInfo, merged, getNextFieldToAsk(merged, rental, langOf(obj)))

extracted(obj, log, rental, userInfo) ==
    inform(obj, log, rental, userInfo,
           mergedUserInfo(obj.userInfo, userInfo, phoneNumber(log.from)))

\* lines 331-437
infoBranch(obj, log, infoReply) ==
    extracted(obj, [log EXCEPT !.calls = @ \o <<"info">>],
              isRental(obj.service, obj.selectedOfferDetails),
              extractUserInfo(infoReply))

\* lines 549-669: the messages of a search turn, each offer with its image
searchMessages(toPropose, filteredSuggestions) ==
    IF Len(toPropose) > 0
    THEN <<Msg("intro", <<>>, {})>>
         \o [i \in 1..Len(toPropose) |-> Msg("offer", <<toPropose[i]>>, {"image"})]
         \o <<Msg("closing", <<>>, {})>>
    ELSE IF Len(filteredSuggestions) > 0
    THEN <<Msg("suggestions", Ids(Slice(filteredSuggestions, 3)), {})>>
    ELSE <<Msg("noResults", <<>>, {})>>

\* a handler that records the new batch in place of the ids it loaded
proposedIdsOnly(lastProposedIds, toPropose) == toPropose

\* line 545: (userIntent.lastProposedIds || []).concat(toPropose.map(m => m.id))
proposedIds(lastProposedIds, toPropose) == lastProposedIds \o toPropose

\* lines 543-669, once the search has run
propose(ready, log, toPropose, filteredSuggestions) ==
    savedAndSent(ready,
                 save(ready, [lastProposedIds |->
                                 proposedIds(ready.lastProposedIds, toPropose)]),
                 [log EXCEPT !.toPropose = toPropose],
                 searchMessages(toPropose, filteredSuggestions))

\* lines 451-455: the collection is read
searched(ready, log, found) ==
    after(<<Step("find", ready, log)>>,
          propose(ready, log, Ids(found.toPropose), found.filteredSuggestions))

\* lines 441-442: userIntent.status = 'ready' and save
readied(obj, ready, log, found) ==
    after(<<Step("save", obj, log)>>, searched(ready, log, found))

\* lines 440-670
searchBranch(obj, log) ==
    readied(obj, save(obj, [status |-> "ready"]), [log EXCEPT !.status = "ready"],
            search(obj, log.isRefusal))

\* lines 674-684: the slots the prompt lists as still needed
missing(obj) ==
    {f \in {"service", "town", "budget"} : obj[f] = SlotNull(f)}

\* lines 682-683, once the completion is called
askCalled(obj, log, askThrows) ==
    IF askThrows THEN [doc |-> obj, log |-> Raise(log, "ask"), steps |-> <<>>]
    ELSE [doc |-> obj,
          log |-> [log EXCEPT !.out = Append(@, Msg("ask", <<>>, missing(obj)))],
          steps |-> sends(obj, log, <<Msg("ask", <<>>, missing(obj))>>)]

askBranch(obj, log, askThrows) ==
    IF log.isNewUser THEN [doc |-> obj, log |-> log, steps |-> <<>>]
    ELSE askCalled(obj, [log EXCEPT !.calls = @ \o <<"ask">>], askThrows)

\* the branches of the handler after the slots are merged, in the order of
\* the code's tests
dispatch(obj, log, byIndex, infoReply, askThrows) ==
    CASE log.branch = "selection" -> selectionBranch(obj, log, byIndex)
      [] log.branch = "info" -> infoBranch(obj, log, infoReply)
      [] log.branch = "search" -> searchBranch(obj, log)
      [] OTHER -> askBranch(obj, log, askThrows)

\* the record of a turn whose slot extraction has answered
early(from, intent) ==
    [NoTurn EXCEPT !.from = from, !.branch = "error", !.carried = Carried(intent),
                   !.calls = <<"intent">>]

\* lines 160-187: findOne, then create or merge and save, then the greeting
\* of a new sender
entered(d, obj, log) ==
    <<Step("findOne", d, log),
      Step(IF d = NoDoc THEN "create" ELSE "save", d, [log EXCEPT !.isNewUser = (d = NoDoc)])>>
    \o IF d = NoDoc
       THEN <<Step("sendMessage", obj, [log EXCEPT !.isNewUser = TRUE])>>
       ELSE <<>>

\* extractUserIntent throws (line 159)
intentFailed(from) ==
    Raise([NoTurn EXCEPT !.from = from, !.branch = "error", !.calls = <<"intent">>],
          "extractUserIntent")

\* a handler that asks for the interest before it asks for the refusal
callsInterestFirst(interest) ==
    <<"intent">> \o (IF interest THEN <<"interest">> ELSE <<>>) \o <<"refusal">>

\* the completion calls awaited before the branch is taken, in the order of
\* their awaits (lines 159, 197, 252)
callsBeforeBranch(interest) ==
    <<"intent", "refusal">> \o IF interest THEN <<"interest">> ELSE <<>>

\* the record of the turn when the branch is entered: the slot extraction
\* (line 159) and the refusal classification (line 197) are called on every
\* turn, the interest classification (line 252) when callsInterest
classified(d, from, intent, obj, body, hasQuotedMsg, interestReply, index, refusalReply) ==
    [NoTurn EXCEPT
        !.from = from, !.branch = branchOf(d, obj, index),
        !.isNewUser = (d = NoDoc),
        !.carried = Carried(intent),
        !.calls = callsBeforeBranch(callsInterest(obj.lastProposedIds, body, hasQuotedMsg)),
        !.isReply = Len(obj.lastProposedIds) > 0 /\ isReply(body, hasQuotedMsg),
        !.interestCheck = IF callsInterest(obj.lastProposedIds, body, hasQuotedMsg)
                          THEN interestReply ELSE NULL,
        !.isRefusal = isRefusal(refusalReply),
        !.interestedIndex = index,
        !.out = IF d = NoDoc THEN <<Msg("greeting", <<>>, {})>> ELSE <<>>]

\* the operations of the model that can be made to throw: the reads and
\* writes of the Session store, the catalog reads and the sends
Faults == {"findOne", "create", "save", "find", "sendMessage", "sendMedia"}

\* where a turn that went through `steps` can be made to fail: nowhere (0),
\* or at one of its operations named in faults
faultPoints(steps, faults) ==
    {0} \cup {k \in 1..Len(steps) : steps[k].op \in faults}

\* the operation `step` throws
thrownAt(step) == [doc |-> step.doc, log |-> Raise(step.log, step.op), steps |-> <<>>]

\* the message the operation `step` of the run `whole` was sending
sending(whole, step) == whole.log.out[Len(step.log.out) + 1]

\* lines 587-591: the download or the send of an offer's image throws inside
\* the loop's own try; its catch sends the offer as text, and the loop goes on
imageFailed(whole, step) ==
    [doc |-> whole.doc,
     log |-> [whole.log EXCEPT !.imageErr = sending(whole, step).ids[1],
                               !.out[Len(step.log.out) + 1] =
                                   Msg("offer", sending(whole, step).ids, {})],
     steps |-> <<>>]

\* line 590: the send of the offer as text throws in its turn, out of the
\* loop's catch
resendThrown(whole, step) ==
    thrownAt(Step("sendMessage", step.doc,
                  [step.log EXCEPT !.imageErr = sending(whole, step).ids[1]]))

\* the operation steps[k] of the run `whole` throws (no operation when k = 0)
faulted(whole, steps, k, resendErr) ==
    IF k = 0 THEN whole
    ELSE IF steps[k].op = "sendMedia"
    THEN IF resendErr THEN resendThrown(whole, steps[k]) ELSE imageFailed(whole, steps[k])
    ELSE thrownAt(steps[k])

\* the record notes how the extraction calls of the turn answered
replied(log, intentReply, infoReply) ==
    [log EXCEPT !.intentReply = intentReply.kind,
                !.infoReply = IF \E i \in 1..Len(log.calls) : log.calls[i] = "info"
                              THEN infoReply.kind ELSE NULL]

\* a handler whose exceptions nobody answers
caughtSilently(log, fallbackErr) == log

\* the catch of the whole handler (lines 686-693): the apology is sent, and a
\* failure of that send (fallbackErr) is only logged
caught(log, fallbackErr) ==
    IF log.threw
    THEN [log EXCEPT !.fallbackErr = fallbackErr,
                     !.out = IF fallbackErr THEN @ ELSE Append(@, Apology)]
    ELSE log

(***************************************************************************)
(* The state machine.                                                      *)
(***************************************************************************)
Init ==
    /\ store = [s \in Senders |-> NoDoc]
    /\ turn = NoTurn
    /\ match = NoMatch
    /\ race = NoRace

\* client.on('message') (lines 93-694): one 1:1 text message of sender s is
\* handled, each value computed in the order of the code; the slot
\* extraction answers one of `replies`, and one operation named in `faults`
\* may throw.  An answer that nothing reads on the turn is fixed to one value
\* (a quoted message is not looked at once a keyword is found in the body;
\* the plan of the find is fixed when both plans give the same list).
Turn(s, replies, faults) ==
    \E intentReply \in replies :
      IF intentReply.kind = "throw"
      THEN \E fallbackErr \in (IF faults = {} THEN {FALSE} ELSE BOOLEAN) :
           /\ store' = store
           /\ turn' = caught(replied(intentFailed(s), intentReply, intentReply), fallbackErr)
           /\ match' = match
           /\ race' = race
      ELSE
        \E intent \in {extractUserIntent(intentReply)} :
        \E obj \in {afterMerge(store[s], intent)} :
        \E body \in (IF Len(obj.lastProposedIds) > 0 THEN Bodies ELSE {"Bonjour"}) :
        \E hasQuotedMsg \in (IF Len(obj.lastProposedIds) > 0 /\ ~keywordHits[body]
                              THEN BOOLEAN ELSE {FALSE}) :
        \E interestReply \in (IF callsInterest(obj.lastProposedIds, body, hasQuotedMsg)
                               THEN InterestReplies ELSE {"none"}) :
        \E index \in {interestedIndex(obj.lastProposedIds, body, hasQuotedMsg,
                                       interestReply)} :
        \E branch \in {branchOf(store[s], obj, index)} :
        \E refusalReply \in (IF branch \in {"selection", "search"}
                              THEN RefusalReplies ELSE {"no"}),
           byIndex \in (IF branch = "selection"
                            /\ FindByIds(obj.type, obj.lastProposedIds, TRUE)
                                 # FindByIds(obj.type, obj.lastProposedIds, FALSE)
                         THEN BOOLEAN ELSE {FALSE}),
           infoReply \in (IF branch = "info"
                           THEN InfoReplies(isRental(obj.service, obj.selectedOfferDetails))
                           ELSE {[kind |-> "throw", json |-> <<>>]}),
           askThrows \in (IF branch = "ask" THEN BOOLEAN ELSE {FALSE}) :
        \E log \in {classified(store[s], s, intent, obj, body, hasQuotedMsg,
                                interestReply, index, refusalReply)} :
        \E whole \in {dispatch(obj, log, byIndex, infoReply, askThrows)} :
        \E steps \in {IF faults = {} THEN <<>>
                      ELSE entered(store[s], obj, early(s, intent)) \o whole.steps} :
        \E k \in faultPoints(steps, faults) :
        \E resendErr \in (IF k # 0 /\ steps[k].op = "sendMedia" THEN BOOLEAN ELSE {FALSE}) :
        \E r \in {faulted(whole, steps, k, resendErr)} :
        \E fallbackErr \in (IF r.log.threw /\ faults # {} THEN BOOLEAN ELSE {FALSE}) :
            /\ Len(whole.doc.lastProposedIds) <= MaxProposed
            /\ store' = [store EXCEPT ![s] = r.doc]
            /\ turn' = caught(replied(r.log, intentReply, infoReply), fallbackErr)
            /\ match' = match
            /\ race' = race

\* a message is handled and every store, catalog and send operation succeeds
Message(s) == Turn(s, IntentReplies, {})

\* clearAllChats.js: UserIntent.deleteMany({})
ClearAll ==
    /\ store' = [s \in Senders |-> NoDoc]
    /\ turn' = NoTurn
    /\ match' = match
    /\ race' = race

Next ==
    \/ \E s \in Senders : Message(s)
    \/ ClearAll

Spec == Init /\ [][Next]_vars

(***************************************************************************)
(* The contact branch (lines 331-437) runs on a document whose status is   *)
(* 'collecting_info'.  The schema's enum keeps save() from writing that    *)
(* status, so no run of Spec enters the branch; the branch reads status,   *)
(* userInfo and selectedOfferDetails from toObject(), whoever wrote them.  *)
(* SpecStored starts from a collection that holds such documents: an offer *)
(* of the catalog selected, and a contact record in which at most          *)
(* MaxStored fields are known or at most MaxStored fields are missing.     *)
(* Its messages are the answers to the contact questions: their slot       *)
(* extraction carries no slot but the language.                            *)
(***************************************************************************)
StoredInfos ==
    {<<>>} \cup
    {[k \in c \cup {"telephone"} |->
         IF k = "telephone" THEN phoneNumber(CHOOSE s \in Senders : TRUE) ELSE InfoValue(k)] :
       c \in {c \in SUBSET InfoKeys :
                 Cardinality(c) <= MaxStored \/ Cardinality(InfoKeys \ c) <= MaxStored}}

\* a document in the contact branch: `offer` was selected out of the batch
\* lastProposedIds
StoredDoc(language, offer, lastProposedIds, userInfo) ==
    [service |-> "villa", town |-> "Douala", budget |-> 100, type |-> "immobilier",
     language |-> language, lastProposedIds |-> lastProposedIds,
     status |-> "collecting_info", userInfo |-> userInfo,
     selectedOfferDetails |-> offer, selectedOfferId |-> offer.id,
     requestType |-> IF isRental("villa", offer) THEN "rental" ELSE "purchase"]

\* the selected offer was proposed alone, or, for a sender of whom nothing is
\* known yet, with the other offer of the batch
StoredDocs ==
    {StoredDoc(language, offer, <<offer.id>>, userInfo) :
       language \in Languages \cup {NULL}, offer \in {Immobilier[1], Immobilier[2]},
       userInfo \in StoredInfos}
    \cup {StoredDoc(NULL, offer, <<Immobilier[1].id, Immobilier[2].id>>, <<>>) :
            offer \in {Immobilier[1], Immobilier[2]}}

InitStored ==
    /\ store \in [Senders -> StoredDocs]
    /\ turn = NoTurn
    /\ match = NoMatch
    /\ race = NoRace

ContactReplies == {r \in IntentReplies : Carried(r.json) \subseteq {"language"}}

ContactMessage(s) == Turn(s, ContactReplies, {})

NextStored == \E s \in Senders : ContactMessage(s)

SpecStored == InitStored /\ [][NextStored]_vars

(***************************************************************************)
(* The contact dialogue answered.  SpecContact starts from the documents   *)
(* of the contact branch and handles, as long as the Session is in         *)
(* collecting_info, messages that answer the question asked last: no call  *)
(* fails, the message is no reply to the batch (no keyword, no quote) and  *)
(* the contact extraction holds a value for a field the question named.    *)
(* The handler is called for every message that arrives, and the sender    *)
(* keeps answering: the turn is taken whenever it can be.                  *)
(***************************************************************************)
\* the fields asked for by the message sent last to s: the question of the
\* turn before, or, for a Session just loaded, the first open question of
\* its contact record (the confirmation of a selection asks for the name)
askedLast(s) ==
    IF turn.from = s /\ Len(turn.out) > 0 /\ turn.out[Len(turn.out)].kind = "question"
    THEN turn.out[Len(turn.out)].about
    ELSE nextQuestionMsg(langOf(store[s]),
                         getNextFieldToAsk(store[s].userInfo,
                                           isRental(store[s].service,
                                                    store[s].selectedOfferDetails),
                                           langOf(store[s]))).about

ContactAnswer(s) ==
    /\ store[s].status = "collecting_info"
    /\ \E asked \in {askedLast(s)} :
          /\ Turn(s, ContactReplies, {})
          /\ turn'.branch = "info" /\ ~turn'.isReply /\ ~turn'.threw
          /\ turn'.intentReply = "json" /\ turn'.infoReply = "json"
          /\ asked # {} => \E k \in asked : Has(turn'.userInfo, k)

NextContact == \E s \in Senders : ContactAnswer(s)

SpecContact == InitStored /\ [][NextContact]_vars /\ WF_vars(NextContact)

(***************************************************************************)
(* Failures.  Every awaited operation of the handler can throw.  SpecFault *)
(* handles one message of a sender who says nothing or states a whole      *)
(* request, in each of the Sessions of FaultDocs, and lets one store,      *)
(* catalog or send operation of the turn throw, and the send of the        *)
(* apology after it.                                                       *)
(***************************************************************************)
FaultReplies ==
    {r \in IntentReplies : Carried(r.json) = {} \/ Carried(r.json) = SearchSlots}

\* the Session a first message that states the whole request leaves: the
\* search has run and its batch is recorded
afterFirstSearch(intent) ==
    [NewDoc(intent) EXCEPT
        !.status = "ready",
        !.lastProposedIds = Ids(search(NewDoc(intent), FALSE).toPropose)]

\* the Sessions a failing turn starts from: none, the Session of a sender who
\* has told nothing, the Sessions left by a first search, and the Sessions
\* in the contact branch of which no contact field is known
FaultDocs ==
    {NoDoc, NewDoc(NullIntent)}
        \cup {afterFirstSearch(extractUserIntent(r)) :
                 r \in {r \in IntentReplies : Carried(r.json) = SearchSlots}}
        \cup {d \in StoredDocs : d.userInfo = <<>>}

InitFault ==
    /\ store \in [Senders -> FaultDocs]
    /\ turn = NoTurn
    /\ match = NoMatch
    /\ race = NoRace

FaultyMessage(s) ==
    /\ turn = NoTurn
    /\ Turn(s, FaultReplies, Faults)

NextFault == \E s \in Senders : FaultyMessage(s)

SpecFault == InitFault /\ [][NextFault]_vars

(***************************************************************************)
(* The chats a message comes from.  The handler returns at once on a       *)
(* message of the status feed or of a group (lines 102-111); SpecInbox     *)
(* delivers the messages of every chat, those of a sender who says nothing *)
(* or states a whole request.                                              *)
(***************************************************************************)
StatusFeed == "status@broadcast"

GroupChat == "120363041234567890@g.us"

Chats == Senders \cup {StatusFeed, GroupChat}

\* a handler that lets the messages of groups through
ignoredStatusOnly(from) == from = "status@broadcast"

\* lines 102-111: message.from === 'status@broadcast', or
\* message.from.includes('@g.us')
ignored(from) == from = "status@broadcast" \/ Includes(from, "@g.us")

InitInbox ==
    /\ store = [c \in Chats |-> NoDoc]
    /\ turn = NoTurn
    /\ match = NoMatch
    /\ race = NoRace

\* lines 102-111: the handler returns before it calls anything
Ignore(from) ==
    /\ ignored(from)
    /\ store' = store
    /\ turn' = [NoTurn EXCEPT !.from = from, !.branch = "ignored"]
    /\ match' = match
    /\ race' = race

\* lines 149-694: the message goes through the handler
Deliver(from) ==
    /\ ~ignored(from)
    /\ Turn(from, FaultReplies, {})

NextInbox ==
    \E from \in Chats :
        \/ Ignore(from)
        \/ Deliver(from)

SpecInbox == InitInbox /\ [][NextInbox]_vars

(***************************************************************************)
(* Two messages of one sender handled side by side.  The handler is an     *)
(* async callback: between two of its awaits the handler of another        *)
(* message runs.  SpecRace takes two invocations through the awaits that   *)
(* read or write the Session collection (findOne, create, the three        *)
(* saves) and the catalog read; the calls and sends between them touch     *)
(* nothing shared and are part of the step before them.  The messages      *)
(* carry no interest keyword and are not refusals, and their slot          *)
(* extraction tells the type, a whole request or nothing.  The collection  *)
(* is the list of its documents, each with its userId; save() updates the  *)
(* document it loaded, and writes the paths it modified.                   *)
(***************************************************************************)
Procs == {1, 2}

RaceSender == CHOOSE s \in Senders : TRUE

\* the Session of a sender who has told everything but the type
RaceDoc ==
    NewDoc([NullIntent EXCEPT !.service = "villa", !.town = "Douala", !.budget = 100])

RaceColls == {<<>>, <<[userId |-> RaceSender, doc |-> RaceDoc]>>}

RaceReplies ==
    {r \in IntentReplies :
        /\ r.kind = "json"
        /\ Carried(r.json) \subseteq {"type"} \/ Carried(r.json) = SearchSlots}

\* an invocation that has not started: message.from, its position, the
\* extraction, the place in the collection of the document it loaded or
\* created (idx), its copy of the document (obj), the ids it proposes, when
\* it loaded and when it saved lastProposedIds, whether its create was
\* rejected, and the chats it sent a message to
Idle ==
    [from |-> RaceSender, pc |-> "idle", intent |-> NullIntent, idx |-> 0,
     obj |-> NoDoc, ids |-> <<>>, loadedAt |-> 0, proposedAt |-> 0, threw |-> FALSE,
     sentTo |-> {}]

InitRace ==
    /\ store = [s \in Senders |-> NoDoc]
    /\ turn = NoTurn
    /\ match = NoMatch
    /\ race \in {[coll |-> coll, procs |-> [p \in Procs |-> Idle], clock |-> 0] :
                    coll \in RaceColls}

\* a lookup that takes the first document of the collection, whoever's
findFirst(coll, userId) == IF Len(coll) > 0 THEN 1 ELSE 0

\* UserIntent.findOne({ userId }): the place of the first document of the
\* sender, 0 when there is none
findOne(coll, userId) ==
    IF \E i \in 1..Len(coll) : coll[i].userId = userId
    THEN CHOOSE i \in 1..Len(coll) :
            /\ coll[i].userId = userId
            /\ \A j \in 1..(i - 1) : coll[j].userId # userId
    ELSE 0

\* a collection without the unique index
createUnchecked(coll, userId) == FALSE

\* userId: { unique: true, index: true }: the insert of a second document
\* with the userId is rejected with a duplicate key error
createThrows(coll, userId) == \E i \in 1..Len(coll) : coll[i].userId = userId

\* the assignments that changed the value of the hydrated document: only
\* these paths are written by save()
modifiedPaths(obj, assigned) ==
    [k \in {k \in DOMAIN assigned : assigned[k] # obj[k]} |-> assigned[k]]

\* userIntent.save() of the invocation whose document is at idx
saved(coll, idx, obj, assigned) ==
    [coll EXCEPT ![idx].doc = save(@, modifiedPaths(obj, assigned))]

\* where the invocation goes once its slots are merged: the search (line
\* 440) or the end of the turn, after the greeting or the question
afterSlots(obj) == IF slotsComplete(obj) THEN "ready" ELSE "done"

\* line 159: the slot extraction returns
Receive(p) ==
    /\ race.procs[p].pc = "idle"
    /\ \E reply \in RaceReplies :
          race' = [race EXCEPT !.procs[p].pc = "findOne",
                               !.procs[p].intent = extractUserIntent(reply)]
    /\ UNCHANGED <<store, turn, match>>

\* line 160
FindOne(p) ==
    /\ race.procs[p].pc = "findOne"
    /\ \E idx \in {findOne(race.coll, race.procs[p].from)} :
          race' = [race EXCEPT
                      !.clock = @ + 1,
                      !.procs[p].loadedAt = race.clock + 1,
                      !.procs[p].idx = idx,
                      !.procs[p].obj = IF idx = 0 THEN NoDoc ELSE race.coll[idx].doc,
                      !.procs[p].pc = IF idx = 0 THEN "create" ELSE "save"]
    /\ UNCHANGED <<store, turn, match>>

\* line 164: a rejected create goes to the catch of the handler, which
\* sends the apology (689); after the create the greeting is sent (186)
Create(p) ==
    /\ race.procs[p].pc = "create"
    /\ \E obj \in {NewDoc(race.procs[p].intent)} :
          race' = IF createThrows(race.coll, race.procs[p].from)
                  THEN [race EXCEPT !.procs[p].pc = "done", !.procs[p].threw = TRUE,
                                    !.procs[p].sentTo = @ \cup {race.procs[p].from}]
                  ELSE [race EXCEPT
                           !.coll = Append(@, [userId |-> race.procs[p].from, doc |-> obj]),
                           !.procs[p].idx = Len(race.coll) + 1,
                           !.procs[p].obj = obj,
                           !.procs[p].sentTo = @ \cup {race.procs[p].from},
                           !.procs[p].pc = afterSlots(obj)]
    /\ UNCHANGED <<store, turn, match>>

\* lines 168-174, and the question for a missing slot (683) when the turn
\* ends there
SaveMerged(p) ==
    /\ race.procs[p].pc = "save"
    /\ \E assigned \in {MergeIntent(race.procs[p].obj, race.procs[p].intent)} :
       \E obj \in {save(race.procs[p].obj, assigned)} :
          race' = [race EXCEPT
                      !.coll = saved(@, race.procs[p].idx, race.procs[p].obj, assigned),
                      !.procs[p].obj = obj,
                      !.procs[p].sentTo = IF afterSlots(obj) = "done"
                                          THEN @ \cup {race.procs[p].from} ELSE @,
                      !.procs[p].pc = afterSlots(obj)]
    /\ UNCHANGED <<store, turn, match>>

\* lines 441-442
SaveReady(p) ==
    /\ race.procs[p].pc = "ready"
    /\ \E assigned \in {[status |-> "ready"]} :
          race' = [race EXCEPT
                      !.coll = saved(@, race.procs[p].idx, race.procs[p].obj, assigned),
                      !.procs[p].obj = save(@, assigned),
                      !.procs[p].pc = "find"]
    /\ UNCHANGED <<store, turn, match>>

\* lines 455-543: the catalog is read and the batch is chosen
Find(p) ==
    /\ race.procs[p].pc = "find"
    /\ race' = [race EXCEPT
                   !.procs[p].ids = Ids(search(race.procs[p].obj, FALSE).toPropose),
                   !.procs[p].pc = "propose"]
    /\ UNCHANGED <<store, turn, match>>

\* lines 545-546, and the sends after them
Propose(p) ==
    /\ race.procs[p].pc = "propose"
    /\ \E assigned \in {[lastProposedIds |->
                            proposedIds(race.procs[p].obj.lastProposedIds,
                                        race.procs[p].ids)]} :
          race' = [race EXCEPT
                      !.clock = @ + 1,
                      !.procs[p].proposedAt = race.clock + 1,
                      !.coll = saved(@, race.procs[p].idx, race.procs[p].obj, assigned),
                      !.procs[p].obj = save(@, assigned),
                      !.procs[p].sentTo = @ \cup {race.procs[p].from},
                      !.procs[p].pc = "done"]
    /\ UNCHANGED <<store, turn, match>>

NextRace ==
    \E p \in Procs :
        \/ Receive(p)
        \/ FindOne(p)
        \/ Create(p)
        \/ SaveMerged(p)
        \/ SaveReady(p)
        \/ Find(p)
        \/ Propose(p)

SpecRace == InitRace /\ [][NextRace]_vars

(***************************************************************************)
(* Two senders handled side by side.  SpecPair takes the same invocations  *)
(* through the same awaits, the first for one sender and the second for    *)
(* another; the collection holds no Session, the Session of the first      *)
(* sender, or a Session of each.                                           *)
(***************************************************************************)
OtherSender == "237600000002@c.us"

PairColls ==
    {<<>>,
     <<[userId |-> RaceSender, doc |-> RaceDoc]>>,
     <<[userId |-> RaceSender, doc |-> RaceDoc], [userId |-> OtherSender, doc |-> RaceDoc]>>}

InitPair ==
    /\ store = [s \in Senders |-> NoDoc]
    /\ turn = NoTurn
    /\ match = NoMatch
    /\ race \in {[coll |-> coll,
                  procs |-> [p \in Procs |->
                                [Idle EXCEPT !.from = IF p = 1 THEN RaceSender
                                                      ELSE OtherSender]],
                  clock |-> 0] : coll \in PairColls}

SpecPair == InitPair /\ [][NextRace]_vars

(***************************************************************************)
(* The Matching Engine on any catalog.  The search workflow (lines         *)
(* 444-669) reads the whole collection of the query's type and is a        *)
(* function of the documents read, the four slots, lastProposedIds and the *)
(* refusal classification.  SpecMatch draws them: a collection is up to    *)
(* MaxCatalog offers of OfferPool in their natural order, which is not the *)
(* order of their ids.                                                     *)
(***************************************************************************)
\* an offer may carry both town fields; 108 has no town
OfferPool ==
    << [id |-> 105, CategorieFr |-> "Villa", description |-> "Belle villa",
        localisationFr |-> "Douala", villeFr |-> "Yaounde", prix |-> 100,
        modeleFr |-> NULL, marqueFr |-> NULL, nom |-> NULL],
       [id |-> 102, CategorieFr |-> "Location", description |-> "Villa a louer",
        localisationFr |-> "Douala Bonapriso", villeFr |-> "Douala", prix |-> 125,
        modeleFr |-> NULL, marqueFr |-> NULL, nom |-> NULL],
       [id |-> 108, CategorieFr |-> "Villa", description |-> "Villa",
        localisationFr |-> NULL, villeFr |-> NULL, prix |-> 75,
        modeleFr |-> NULL, marqueFr |-> NULL, nom |-> NULL],
       [id |-> 101, CategorieFr |-> "Terrain", description |-> "Terrain titre",
        localisationFr |-> "Douala", villeFr |-> "Douala", prix |-> 80,
        modeleFr |-> NULL, marqueFr |-> NULL, nom |-> NULL],
       [id |-> 107, CategorieFr |-> "Vente", description |-> "Berline",
        localisationFr |-> "Yaounde", villeFr |-> "Douala", prix |-> 126,
        modeleFr |-> NULL, marqueFr |-> NULL, nom |-> "Villa car"],
       [id |-> 103, CategorieFr |-> "VILLA", description |-> NULL,
        localisationFr |-> "DOUALA", villeFr |-> "douala", prix |-> 100,
        modeleFr |-> NULL, marqueFr |-> NULL, nom |-> NULL],
       [id |-> 106, CategorieFr |-> "Villa", description |-> "Villa",
        localisationFr |-> "Dou", villeFr |-> "Dou", prix |-> 120,
        modeleFr |-> NULL, marqueFr |-> NULL, nom |-> NULL],
       [id |-> 104, CategorieFr |-> "Villa", description |-> "Villa",
        localisationFr |-> "Douala", villeFr |-> "Douala", prix |-> 76,
        modeleFr |-> NULL, marqueFr |-> NULL, nom |-> NULL],
       [id |-> 109, CategorieFr |-> "Villa", description |-> "Villa",
        localisationFr |-> "Douala", villeFr |-> "Douala", prix |-> 74,
        modeleFr |-> NULL, marqueFr |-> NULL, nom |-> NULL] >>

PoolIds == {OfferPool[i].id : i \in 1..Len(OfferPool)}

\* the collections of the model
Catalogs ==
    {SelectSeq(OfferPool, LAMBDA o : o.id \in K) :
        K \in {K \in SUBSET PoolIds : Cardinality(K) <= MaxCatalog}}

\* the slots of the queries
MatchTowns == {"Douala", "Douala Akwa"}
MatchServices == {"Villa", "terrain"}
MatchBudgets == {100, 60}

\* lastProposedIds of the queries: nothing proposed yet, or the first two
\* offers of the pool
MatchLastIds == {<<>>, <<105, 102>>}

InitMatch ==
    /\ store = [s \in Senders |-> NoDoc]
    /\ turn = NoTurn
    /\ race = NoRace
    /\ match \in {[NoMatch EXCEPT !.allDocs = allDocs, !.type = type, !.town = town,
                                  !.service = service, !.budget = budget,
                                  !.lastIds = lastIds, !.isRefusal = refusal] :
                     allDocs \in Catalogs, type \in Types, town \in MatchTowns,
                     service \in MatchServices, budget \in MatchBudgets,
                     lastIds \in MatchLastIds, refusal \in BOOLEAN}

\* lines 444-669: the search workflow runs on the documents read
RunSearch ==
    /\ ~match.ran
    /\ \E found \in {matchOffers(match.allDocs, match.type, match.town, match.service,
                                  match.budget,
                                  excludedIds(match.lastIds, match.isRefusal))} :
          match' = [match EXCEPT
                       !.ran = TRUE, !.found = found,
                       !.sent = searchMessages(Ids(found.toPropose),
                                               found.filteredSuggestions)]
    /\ UNCHANGED <<store, turn, race>>

NextMatch == RunSearch

SpecMatch == InitMatch /\ [][NextMatch]_vars

(***************************************************************************)
(* The properties.  `turn` is the record of the last turn handled, `store`  *)
(* the collection after it; in an action formula `store` is the collection *)
(* before the turn and store', turn' are the collection and the record     *)
(* after it.                                                               *)
(***************************************************************************)
\* s has a Session after the last turn, and the last turn was s's
Handled(s) == turn.from = s /\ store[s] # NoDoc

\* C1: the slot merge is non-destructive.  On every turn of a sender who
\* already has a Session, each of service, town, budget, type and language
\* that was set before the turn is set after it, and its value differs from
\* the one before only if the extraction carried a non-null value for it.
SlotMergeNonDestructive ==
    [][\A s \in Senders :
          (store[s] # NoDoc /\ turn'.from = s) =>
              /\ store'[s] # NoDoc
              /\ \A f \in SlotNames :
                    /\ store[s][f] # SlotNull(f) => store'[s][f] # SlotNull(f)
                    /\ store'[s][f] # store[s][f] => f \in turn'.carried]_vars

\* C1's case: a turn on an existing Session whose extraction carried a value
\* for one slot while another slot, set before, is still set
SlotMergedOnExistingSession ==
    \E s \in Senders :
        /\ Handled(s) /\ ~turn.isNewUser /\ turn.carried # {}
        /\ \A f \in turn.carried : store[s][f] # SlotNull(f)
        /\ \E f \in SlotNames \ turn.carried : store[s][f] # SlotNull(f)

MergeIdempotent ==
    [][\A s \in Senders :
          (/\ store[s] # NoDoc /\ turn'.from = s /\ turn'.carried = {}
           /\ \A k \in InfoKeys : ~Has(turn'.userInfo, k)) =>
              /\ store'[s] # NoDoc
              /\ \A f \in SlotNames : store'[s][f] = store[s][f]
              /\ store'[s].userInfo = store[s].userInfo
              /\ turn'.branch = "info" =>
                    \A k \in InfoKeys :
                        IF k \in DOMAIN store[s].userInfo
                        THEN /\ k \in DOMAIN turn'.mergedUserInfo
                             /\ turn'.mergedUserInfo[k] = store[s].userInfo[k]
                        ELSE k \notin DOMAIN turn'.mergedUserInfo]_vars

\* C3's case: a collecting_info turn on a Session that knows a contact field
\* and has a slot set, where neither extraction held a value
NothingExtractedInContact ==
    \E s \in Senders :
        /\ Handled(s) /\ turn.branch = "info" /\ turn.carried = {}
        /\ \A k \in InfoKeys : ~Has(turn.userInfo, k)
        /\ \E k \in InfoKeys : Has(turn.mergedUserInfo, k)
        /\ store[s].service # NULL

\* C4: after every slot-complete search turn lastProposedIds is exactly the
\* batch proposed on that turn, and so has at most 5 entries.
ProposedIdsReplaced ==
    \A s \in Senders :
        (Handled(s) /\ turn.branch = "search") =>
            /\ store[s].lastProposedIds = turn.toPropose
            /\ Len(store[s].lastProposedIds) <= 5

\* C5: a selection is index-aligned with the proposal list.  Whenever a turn
\* selects an offer with interest index i (0-based), the selectedOfferId it
\* sets is lastProposedIds[i].
SelectionIndexAligned ==
    \A s \in Senders :
        (Handled(s) /\ turn.branch = "selection" /\ turn.selectedOfferId # 0) =>
            /\ turn.interestedIndex + 1 \in 1..Len(store[s].lastProposedIds)
            /\ turn.selectedOfferId = store[s].lastProposedIds[turn.interestedIndex + 1]

\* C6: the status never regresses.  Once the Session's status is ready, no
\* later turn of the sender sets it to collecting_info.
StatusNeverRegresses ==
    [][\A s \in Senders :
          store[s].status = "ready" =>
              ~(turn'.from = s /\ turn'.status = "collecting_info")]_vars

\* C7: the status becomes ready only on a turn handled in collecting_info
\* whose merged contact info has no missing field; no other turn sets it.
ReadyOnlyFromContact ==
    [][\A s \in Senders :
          (turn'.from = s /\ turn'.status = "ready") =>
              /\ store[s].status = "collecting_info"
              /\ turn'.branch = "info"
              /\ turn'.nextField = NoField]_vars

\* the request of s's Session is a rental (lines 337-342)
RentalRequest(s) == isRental(store[s].service, store[s].selectedOfferDetails)

ContactOrder(rental) ==
    IF rental
    THEN <<{"nom", "prenom"}, {"villeActuelle"}, {"email"}, {"nombreJours"}, {"dateDebut"}>>
    ELSE <<{"nom", "prenom"}, {"villeActuelle"}>>

\* nothing the question asks for is known
Unmet(userInfo, asked) == \A k \in asked : ~Has(userInfo, k)

SelectionPersisted ==
    \A s \in Senders :
        (Handled(s) /\ turn.branch = "selection" /\ turn.selectedOfferId # 0) =>
            /\ store[s].selectedOfferId = turn.selectedOfferId
            /\ store[s].selectedOfferDetails.id = turn.selectedOfferId
            /\ store[s].requestType = turn.requestType
            /\ store[s].status = "collecting_info"
            /\ ~turn.threw
            /\ \E i \in 1..Len(turn.out) :
                  turn.out[i].kind = "confirmation" /\ turn.out[i].about = {"nom", "prenom"}
            /\ \A i \in 1..Len(turn.out) : turn.out[i] # Apology

\* the first message of s was handled: the turn created s's Session
Created(s) == store[s] = NoDoc /\ turn'.from = s /\ store'[s] # NoDoc

\* C11: the turn that creates a Session sends the greeting and nothing else.
\* On the first message of an unseen sender the only outbound message is the
\* greeting, neither the refusal nor the interest classification is called,
\* no offer is proposed and lastProposedIds is empty after the turn, whatever
\* slots the message supplies.
GreetingOnly ==
    [][\A s \in Senders :
          Created(s) =>
              /\ turn'.out = <<Msg("greeting", <<>>, {})>>
              /\ \A i \in 1..Len(turn'.calls) : turn'.calls[i] \notin {"refusal", "interest"}
              /\ turn'.toPropose = <<>>
              /\ store'[s].lastProposedIds = <<>>]_vars

\* C12: the single-offer shortcut.  On a turn of a sender whose
\* lastProposedIds holds exactly one id and whose message contains an assent
\* keyword or quotes a message, the first index is selected, the interest
\* classification is not called, and the offer selected, when the catalog of
\* the Session's type holds the id, is the sole proposed one.
SingleOfferShortcut ==
    [][\A s \in Senders :
          (turn'.from = s /\ store[s] # NoDoc /\ turn'.isReply
              /\ Len(store[s].lastProposedIds) = 1) =>
              /\ turn'.interestedIndex = 0
              /\ turn'.branch = "selection"
              /\ \A i \in 1..Len(turn'.calls) : turn'.calls[i] # "interest"
              /\ HasId(Ids(Model(store'[s].type)), store[s].lastProposedIds[1]) =>
                     turn'.selectedOfferId = store[s].lastProposedIds[1]]_vars

\* C12's case: after a search that proposed one offer, a message with an
\* assent keyword selected it
SoleOfferSelected ==
    \E s \in Senders :
        /\ Handled(s) /\ turn.isReply /\ turn.branch = "selection"
        /\ Len(store[s].lastProposedIds) = 1
        /\ turn.selectedOfferId = store[s].lastProposedIds[1]

\* the answer of the interest classification names none of n options
Unparsable(answer, n) == parseInt(answer) = NaN \/ parseInt(answer) < 1 \/ parseInt(answer) > n

\* C13: the ambiguous-interest fallback.  On a turn of a sender whose
\* lastProposedIds holds more than one id and whose message passes the
\* keyword pre-filter, an interest classification that fails or answers
\* nothing parsable selects the last proposed index.
LastIndexOnFailedInterest ==
    [][\A s \in Senders :
          (turn'.from = s /\ store[s] # NoDoc /\ turn'.isReply
              /\ Len(store[s].lastProposedIds) > 1
              /\ turn'.interestCheck # NULL
              /\ Unparsable(turn'.interestCheck, Len(store[s].lastProposedIds))) =>
              turn'.interestedIndex = Len(store[s].lastProposedIds) - 1]_vars

\* the ids shown by the messages of one kind
Shown(out, kind) ==
    UNION {{out[i].ids[j] : j \in 1..Len(out[i].ids)} :
              i \in {i \in 1..Len(out) : out[i].kind = kind}}

\* the ids proposed to s before the turn
ProposedBefore(s) ==
    IF store[s] = NoDoc THEN {}
    ELSE {store[s].lastProposedIds[i] : i \in 1..Len(store[s].lastProposedIds)}

\* C14: the refusal exclusion.  On a search turn, when the refusal
\* classification is true no id of lastProposedIds is proposed or suggested;
\* when it is false the turn proposes and suggests what the filters yield,
\* previously proposed offers included.
RefusalExclusion ==
    [][\A s \in Senders :
          (turn'.from = s /\ turn'.branch = "search") =>
              LET plain == search(store'[s], FALSE)
              IN /\ turn'.isRefusal =>
                       ProposedBefore(s) \cap (Shown(turn'.out, "offer")
                                                 \cup Shown(turn'.out, "suggestions")) = {}
                 /\ ~turn'.isRefusal =>
                       /\ turn'.toPropose = Ids(plain.toPropose)
                       /\ Shown(turn'.out, "offer") = Shown(searchMessages(Ids(plain.toPropose), plain.filteredSuggestions), "offer")
                       /\ Shown(turn'.out, "suggestions") = Shown(searchMessages(Ids(plain.toPropose), plain.filteredSuggestions), "suggestions")
                       /\ \A id \in ProposedBefore(s) :
                             HasId(Ids(plain.toPropose), id) => HasId(turn'.toPropose, id)]_vars

\* C14's case: a refusal on a search turn kept an offer proposed before, which
\* the filters yield, from being proposed again
RefusedOfferNotProposedAgain ==
    \E s \in Senders :
        /\ Handled(s) /\ turn.branch = "search" /\ turn.isRefusal
        /\ \E i \in 1..Len(store[s].lastProposedIds) :
              /\ HasId(Ids(search(store[s], FALSE).toPropose), store[s].lastProposedIds[i])
              /\ ~HasId(turn.toPropose, store[s].lastProposedIds[i])

\* doc is an element of the array
InArray(offers, doc) == \E i \in 1..Len(offers) : offers[i] = doc

\* 0.75 * b <= price <= 1.25 * b
InBand(b, price) == 75 * b <= 100 * price /\ 100 * price <= 125 * b

\* C15: the budget tolerance.  For a positive budget b, an offer that passed
\* the town and service stages is in the result of the budget stage if and
\* only if 0.75 b <= price <= 1.25 b, both ends included; every offer
\* proposed has its price in the band.
BudgetTolerance ==
    (match.ran /\ match.budget > 0) =>
        /\ \A i \in 1..Len(match.found.serviceMatches) :
              LET doc == match.found.serviceMatches[i]
              IN InArray(match.found.budgetMatches, doc) <=> InBand(match.budget, doc.prix)
        /\ \A i \in 1..Len(match.found.budgetMatches) :
              InArray(match.found.serviceMatches, match.found.budgetMatches[i])
        /\ \A i \in 1..Len(match.found.toPropose) :
              InBand(match.budget, match.found.toPropose[i].prix)

\* C15's case: a run with budget 100 proposed an offer at 125 and one at 75,
\* and dropped at the budget stage an offer at 126
BandEndsProposed ==
    /\ match.ran /\ match.budget = 100
    /\ \E i, j \in 1..Len(match.found.toPropose) :
          match.found.toPropose[i].prix = 125 /\ match.found.toPropose[j].prix = 75
    /\ \E i \in 1..Len(match.found.serviceMatches) :
          /\ match.found.serviceMatches[i].prix = 126
          /\ ~InArray(match.found.budgetMatches, match.found.serviceMatches[i])

\* a is a substring of b
Substring(a, b) == \E i \in 1..(Len(b) - Len(a) + 1) : SubSeq(b, i, i + Len(a) - 1) = a

\* the lower-cased town of an offer of the run: localisationFr of a property,
\* villeFr of a vehicle, empty when the field is missing
TownOf(doc) ==
    LET field == IF match.type = "immobilier" THEN doc.localisationFr ELSE doc.villeFr
    IN IF field = NULL THEN "" ELSE ToLower(field)

\* C16: the town filter.  An offer of the collection passes the town stage if
\* and only if its lower-cased town is a substring of the lower-cased town of
\* the user or the user's town is a substring of the offer's; so for every
\* offer, those without a town included.
TownFilter ==
    match.ran =>
        /\ \A i \in 1..Len(match.allDocs) :
              LET doc == match.allDocs[i]
              IN InArray(match.found.townMatches, doc) <=>
                    \/ Substring(TownOf(doc), ToLower(match.town))
                    \/ Substring(ToLower(match.town), TownOf(doc))
        /\ \A i \in 1..Len(match.found.townMatches) :
              InArray(match.allDocs, match.found.townMatches[i])

\* C16's case: a run whose town stage passed an offer without a town, an
\* offer whose town is longer than the user's and an offer whose town is
\* shorter, and dropped another offer
TownsPassedAndDropped ==
    /\ match.ran
    /\ \E i, j, k \in 1..Len(match.found.townMatches) :
          /\ TownOf(match.found.townMatches[i]) = ""
          /\ Len(TownOf(match.found.townMatches[j])) > Len(match.town)
          /\ Len(TownOf(match.found.townMatches[k])) \in 1..(Len(match.town) - 1)
    /\ \E i \in 1..Len(match.allDocs) :
          ~InArray(match.found.townMatches, match.allDocs[i])

\* the offers of the town stage that match the service term of the run
MatchingService ==
    {i \in 1..Len(match.found.townMatches) :
        serviceMatch(match.type, ToLower(match.service), match.found.townMatches[i])}

\* C17: the service-filter fallback.  When the town-filtered set is not
\* empty, the set passed on to the budget stage is not empty; when no
\* town-filtered offer matches the service, the whole town-filtered set is
\* passed on; otherwise only offers that match the service are.
ServiceFallback ==
    match.ran =>
        \A matching \in {MatchingService} :
            /\ Len(match.found.townMatches) > 0 => Len(match.found.serviceMatches) > 0
            /\ matching = {} => match.found.serviceMatches = match.found.townMatches
            /\ matching # {} =>
                  \A i \in 1..Len(match.found.townMatches) :
                      InArray(match.found.serviceMatches, match.found.townMatches[i])
                          <=> i \in matching

\* C17's case: a run in which offers passed the town stage, none of them
\* matched the service, and all were passed on
ServiceFilterSkipped ==
    /\ match.ran
    /\ Len(match.found.townMatches) > 1
    /\ MatchingService = {}
    /\ match.found.serviceMatches = match.found.townMatches

\* the position of an offer in the collection read
Position(doc) == CHOOSE i \in 1..Len(match.allDocs) : match.allDocs[i] = doc

\* the offers of the budget stage that the refusal filter of the run leaves
\* (all of them when the run carries no refusal): `matches` at line 543
Remaining ==
    {i \in 1..Len(match.found.budgetMatches) :
        ~(match.isRefusal /\ HasId(match.lastIds, match.found.budgetMatches[i].id))}

Candidates ==
    SelectSeq(Slice(match.found.townMatches, 3),
              LAMBDA x : /\ ~(match.isRefusal /\ HasId(match.lastIds, x.id))
                         /\ InBand(match.budget, x.prix))

\* C19: the suggestions fallback.  On every run that proposes nothing,
\* whether the budget stage yielded nothing or a refusal excluded all it
\* yielded, the one message sent lists the suggestion candidates, and it is
\* the "no results" message only if there is no candidate.
SuggestionsFallback ==
    (match.ran /\ match.found.toPropose = <<>>) =>
        \A candidates \in {Candidates} :
            /\ Len(match.sent) = 1
            /\ match.sent[1].kind = "noResults" <=> candidates = <<>>
            /\ candidates # <<>> =>
                  match.sent[1] = Msg("suggestions", Ids(candidates), {})

\* the same, for the runs whose budget stage yielded nothing
SuggestionsWhenNothingInBudget ==
    (match.ran /\ match.found.budgetMatches = <<>>) =>
        \A candidates \in {Candidates} :
            /\ Len(match.sent) = 1
            /\ match.sent[1].kind = "noResults" <=> candidates = <<>>
            /\ candidates # <<>> =>
                  match.sent[1] = Msg("suggestions", Ids(candidates), {})

\* the catch of the whole handler answered the failure of the turn: nothing
\* was sent after the operation that threw but the apology, once, or nothing
\* at all when the send of the apology failed
Answered ==
    /\ turn.threw
    /\ \A i \in 1..turn.sentBefore : turn.out[i] # Apology
    /\ IF turn.fallbackErr
       THEN Len(turn.out) = turn.sentBefore
       ELSE /\ Len(turn.out) = turn.sentBefore + 1
            /\ turn.out[Len(turn.out)] = Apology

\* C20 as stated: a turn on which the slot-extraction call, a read or write
\* of the store, a read of the catalog or any outbound send failed, the
\* send of an offer with its image included, ends with the apology sent
\* once and nothing else sent after the failure
FailureApologyAnySend ==
    (turn.failed # NULL \/ turn.imageErr # 0) => Answered

\* C20: a turn on which the slot-extraction call, a read or write of the
\* store, a read of the catalog or the send of a text message failed ends
\* with the apology sent once, and with nothing else sent after the failure;
\* a failure of the send of the apology leaves the turn without more messages;
\* the apology is sent on no other turn.  A failed send of an offer with its
\* image is answered inside the loop by the offer sent as text, and the
\* apology follows only if that send fails too.
FailureApology ==
    /\ turn.failed # NULL => Answered
    /\ turn.failed = NULL =>
          /\ ~turn.threw
          /\ \A i \in 1..Len(turn.out) : turn.out[i] # Apology
    /\ (turn.imageErr # 0 /\ turn.failed = NULL) =>
          /\ \E i \in 1..Len(turn.out) : turn.out[i] = Msg("offer", <<turn.imageErr>>, {})
          /\ turn.out[Len(turn.out)] = Msg("closing", <<>>, {})

\* the send of the closing prompt fails after the intro and the offers were
\* sent, and the apology follows
ApologyAfterFailedSend ==
    /\ turn.failed = "sendMessage"
    /\ turn.imageErr = 0
    /\ turn.sentBefore >= 2
    /\ ~turn.fallbackErr
    /\ turn.out[turn.sentBefore].kind = "offer"
    /\ turn.out[Len(turn.out)] = Apology

\* the offers of the turn's batch of which a message was sent
OffersSent == Shown(turn.out, "offer")

\* C21: on a turn where the send of an offer of the batch failed (the send
\* with its image, and the send as text after it or not), every offer of the
\* batch and the closing prompt are sent all the same
BatchSendResilience ==
    turn.imageErr # 0 =>
        /\ \A i \in 1..Len(turn.toPropose) : turn.toPropose[i] \in OffersSent
        /\ \E j \in 1..Len(turn.out) : turn.out[j] = Msg("closing", <<>>, {})

\* the slots of the sender's Session, all null when there is none
SlotsOf(d) == IF d = NoDoc THEN NullIntent ELSE [f \in SlotNames |-> d[f]]

\* the contact fields of the sender's Session
ContactOf(d) == IF d = NoDoc THEN <<>> ELSE d.userInfo

\* no failure of the turn reached the catch of the handler, and no apology
\* was sent
Continued(log) ==
    /\ ~log.threw
    /\ \A i \in 1..Len(log.out) : log.out[i] # Apology

\* C22: a turn whose slot extraction threw or answered text that is not JSON
\* leaves the slots of the Session as they were, a turn whose contact
\* extraction did so leaves its contact fields as they were, and neither ends
\* in the apology when no store, catalog or send operation failed
ExtractionDegrades ==
    [][\A s \in Senders :
          /\ (/\ turn'.from = s
              /\ turn'.intentReply \in {"throw", "malformed"}
              /\ turn'.failed \in {NULL, "extractUserIntent"})
             => Continued(turn') /\ SlotsOf(store'[s]) = SlotsOf(store[s])
          /\ (/\ turn'.from = s
              /\ turn'.infoReply \in {"throw", "malformed"}
              /\ turn'.failed = NULL)
             => Continued(turn') /\ ContactOf(store'[s]) = ContactOf(store[s])]_vars

\* C23: a turn whose call for the missing-slot question threw ends with the
\* apology, and the Session of the sender is stored as it was before the turn
AskFailureKeepsSession ==
    [][\A s \in Senders :
          (turn'.from = s /\ turn'.failed = "ask")
          => /\ turn'.threw
             /\ turn'.out = <<Apology>>
             /\ store'[s] = store[s]]_vars

\* the ids a turn appended to the sender's lastProposedIds
Appended(old, new) ==
    IF new = NoDoc THEN {}
    ELSE {new.lastProposedIds[i] :
             i \in ((IF old = NoDoc THEN 0 ELSE Len(old.lastProposedIds)) + 1)
                   ..Len(new.lastProposedIds)}

\* the status a document is stored with
StatusOf(d) == IF d = NoDoc THEN NULL ELSE d.status

\* C24: a failure in the middle of a turn leaves no id in lastProposedIds
\* whose offer was not sent and no status ready without a completed search
NoContradictoryState ==
    [][\A s \in Senders :
          turn'.from = s =>
            /\ Appended(store[s], store'[s]) \subseteq Shown(turn'.out, "offer")
            /\ (/\ turn'.branch = "search"
                /\ StatusOf(store'[s]) = "ready"
                /\ StatusOf(store[s]) # "ready")
               => turn'.failed # "find"]_vars

\* the lastProposedIds stored for the sender of the race
StoredIds ==
    IF findOne(race.coll, RaceSender) = 0 THEN {}
    ELSE LET ids == race.coll[findOne(race.coll, RaceSender)].doc.lastProposedIds
         IN {ids[i] : i \in 1..Len(ids)}

BothDone == race.procs # <<>> /\ \A p \in Procs : race.procs[p].pc = "done"

\* an id the invocation p saved in lastProposedIds is not stored any more
Lost(p) ==
    /\ race.procs[p].proposedAt > 0
    /\ \E i \in 1..Len(race.procs[p].ids) : race.procs[p].ids[i] \notin StoredIds

SessionUnique ==
    \A s \in Senders :
        Cardinality({i \in 1..Len(race.coll) : race.coll[i].userId = s}) <= 1

\* two first messages both found no Session; one create was rejected and one
\* Session is stored
SecondCreateRejected ==
    /\ BothDone
    /\ \E p \in Procs : race.procs[p].threw
    /\ Cardinality({i \in 1..Len(race.coll) : race.coll[i].userId = RaceSender}) = 1

OfferOf(id) == CHOOSE o \in Offers : o.id = id

\* the offer's category or description holds a rental term
NamesRental(offer) ==
    \/ Includes(LowerOrEmpty(offer.CategorieFr), "location")
    \/ Includes(LowerOrEmpty(offer.description), "location")
    \/ Includes(LowerOrEmpty(offer.description), "louer")

\* the service the sender asked for holds a rental term
AsksRental(service) ==
    \E term \in {"location", "louer", "rent"} : Includes(LowerOrEmpty(service), term)

\* C28 as stated: on a selection the request is a rental iff the selected
\* offer's category or description holds a rental term, whatever the service
\* slot holds
RequestKindFromOffer ==
    \A s \in Senders :
        (turn.from = s /\ turn.selectedOfferId # 0) =>
            /\ turn.requestType \in {"rental", "purchase"}
            /\ turn.requestType = "rental" <=> NamesRental(OfferOf(turn.selectedOfferId))

\* C28: on a selection the request is a rental iff the selected offer's
\* category or description holds a rental term or the Session's service slot
\* does, and a purchase otherwise
RequestKindFromOfferOrService ==
    \A s \in Senders :
        (turn.from = s /\ turn.selectedOfferId # 0) =>
            /\ turn.requestType \in {"rental", "purchase"}
            /\ turn.requestType = "rental" <=>
                  \/ NamesRental(OfferOf(turn.selectedOfferId))
                  \/ AsksRental(store[s].service)

\* a sender whose service names no rental selects an offer to let: the
\* request is a rental
RentalFromOfferAlone ==
    /\ turn.selectedOfferId # 0
    /\ turn.requestType = "rental"
    /\ ~AsksRental(store[turn.from].service)
    /\ NamesRental(OfferOf(turn.selectedOfferId))

\* the place of a completion call in the order slot extraction, refusal
\* check, interest check, contact extraction, question
Rank(call) ==
    CASE call = "intent" -> 1 [] call = "refusal" -> 2 [] call = "interest" -> 3
      [] call = "info" -> 4 [] OTHER -> 5

Called(call) == \E i \in 1..Len(turn.calls) : turn.calls[i] = call

\* C29: the completion calls of a turn are made one after the other in the
\* order slot extraction, refusal check, interest check, contact extraction,
\* each kind once at most; a later call is made only once the call before it
\* has answered: the refusal check after the slot extraction returned, the
\* contact extraction after the interest check, when there was one, answered
\* and selected nothing
CallsInOrder ==
    /\ \A i, j \in 1..Len(turn.calls) : i < j => Rank(turn.calls[i]) < Rank(turn.calls[j])
    /\ Len(turn.calls) > 0 => turn.calls[1] = "intent"
    /\ Called("refusal") => turn.intentReply \in {"json", "malformed"}
    /\ Called("interest") => Called("refusal") /\ turn.interestCheck # NULL
    /\ Called("info") =>
          /\ Called("refusal")
          /\ turn.interestedIndex = NoIndex

\* a turn that makes the four calls
FourCalls == turn.calls = <<"intent", "refusal", "interest", "info">>

\* the last n ids of the lastProposedIds stored for s: the batch of the turn
Batch(s, n) ==
    SubSeq(store[s].lastProposedIds,
           Len(store[s].lastProposedIds) - n + 1, Len(store[s].lastProposedIds))

\* the messages are the intro, one message for each offer of the batch in
\* its order, and the closing prompt
IntroOffersClosing(out, batch) ==
    /\ Len(out) = Len(batch) + 2
    /\ out[1] = Msg("intro", <<>>, {})
    /\ \A i \in 1..Len(batch) : out[i + 1].kind = "offer" /\ out[i + 1].ids = <<batch[i]>>
    /\ out[Len(out)] = Msg("closing", <<>>, {})

\* C30: on a search turn that proposes at least one offer and on which no
\* send fails, the messages sent are exactly the intro, one message for each
\* proposed offer in the order of the batch recorded in lastProposedIds, and
\* the closing prompt
ProposalMessageOrder ==
    \A s \in Senders :
        (/\ turn.from = s
         /\ turn.branch = "search"
         /\ Len(turn.toPropose) >= 1
         /\ turn.failed = NULL
         /\ turn.imageErr = 0)
        => /\ Len(store[s].lastProposedIds) >= Len(turn.toPropose)
           /\ IntroOffersClosing(turn.out, Batch(s, Len(turn.toPropose)))

\* C31: only 1:1 messages are processed.  A message from 'status@broadcast'
\* or from a sender id containing '@g.us' creates no Session, changes no
\* Session, makes no NLU call and produces no outbound message.
OnlyDirectMessages ==
    [][\A from \in Chats :
          (turn'.from = from /\ (from = "status@broadcast" \/ Includes(from, "@g.us"))) =>
              /\ store' = store
              /\ turn'.calls = <<>>
              /\ turn'.out = <<>>]_vars

\* C31's case: the message of a group arrives when a sender has a Session
\* with a batch proposed, and is ignored
GroupMessageIgnored ==
    /\ turn.from = GroupChat /\ turn.branch = "ignored"
    /\ store[GroupChat] = NoDoc
    /\ \E s \in Senders : store[s] # NoDoc /\ Len(store[s].lastProposedIds) > 0

\* the slots of a search the Session d does not know
Unknown(d) == {f \in SearchSlots : d[f] = SlotNull(f)}

\* C32: the missing-slot prompt.  On a turn of an existing Session that is
\* not a selection, not in collecting_info, and has at least one of service,
\* town, budget, type unknown, and on which no call fails, exactly one
\* message is sent, the NLU-generated question, and it names at least one
\* slot that is actually missing, also when type is the only one; on the
\* Session-creating turn the question is not sent.
MissingSlotPrompt ==
    \A s \in Senders :
        (Handled(s) /\ ~turn.threw) =>
            /\ (/\ ~turn.isNewUser /\ turn.branch \notin {"selection", "info"}
                /\ Unknown(store[s]) # {}) =>
                    /\ Len(turn.out) = 1
                    /\ turn.out[1].kind = "ask"
                    /\ turn.out[1].about # {}
                    /\ turn.out[1].about \subseteq Unknown(store[s])
            /\ turn.isNewUser => \A i \in 1..Len(turn.out) : turn.out[i].kind # "ask"

\* the invocation p takes the step
Steps(p) == race.procs # <<>> /\ race'.procs[p] # race.procs[p]

\* C33: cross-user isolation.  Under every interleaving of the awaits of a
\* turn of sender A with those of a turn of another sender, each step of A's
\* turn loads and creates only a Session whose userId is A, leaves every
\* Session of another sender as it was, and sends messages to A only.
CrossUserIsolation ==
    [][\A p \in Procs :
          Steps(p) =>
              /\ Len(race'.coll) >= Len(race.coll)
              /\ \A i \in 1..Len(race'.coll) :
                    IF i <= Len(race.coll)
                    THEN /\ race'.coll[i].userId = race.coll[i].userId
                         /\ race.coll[i].userId # race.procs[p].from =>
                               race'.coll[i] = race.coll[i]
                    ELSE race'.coll[i].userId = race.procs[p].from
              /\ race'.procs[p].idx # 0 =>
                    race'.coll[race'.procs[p].idx].userId = race.procs[p].from
              /\ race'.procs[p].sentTo \subseteq {race.procs[p].from}]_vars

\* C33's case: the turns of the two senders are over, each loaded its
\* Session before the other saved its batch, and each Session holds the
\* batch of its own turn
SendersInterleaved ==
    /\ BothDone
    /\ race.procs[1].from # race.procs[2].from
    /\ \A p \in Procs :
          /\ race.procs[p].proposedAt > 0
          /\ race.procs[p].sentTo = {race.procs[p].from}
          /\ race.coll[race.procs[p].idx].doc.lastProposedIds = race.procs[p].ids
    /\ race.procs[1].loadedAt < race.procs[2].proposedAt
    /\ race.procs[2].loadedAt < race.procs[1].proposedAt
    /\ race.procs[1].ids # race.procs[2].ids

\* C34: the response guarantee.  Every 1:1 text message whose handling ends
\* produces at least one outbound message to the sender: no turn ends
\* silently.
ResponseGuarantee ==
    \A s \in Senders : turn.from = s => Len(turn.out) >= 1

\* C35: a turn whose refusal classification is true never selects an offer:
\* it assigns no selectedOfferId and does not move the Session to
\* collecting_info.
RefusalNeverSelects ==
    \A s \in Senders :
        (turn.from = s /\ turn.isRefusal) =>
            /\ turn.selectedOfferId = 0
            /\ turn.status # "collecting_info"
            /\ store[s].selectedOfferId = 0
            /\ store[s].status # "collecting_info"

\* C36: when the interest classification is called on a turn (the message
\* passed the keyword pre-filter) and answers 'none', no offer is selected on
\* that turn.
NoneSelectsNothing ==
    \A s \in Senders :
        (turn.from = s /\ turn.interestCheck = "none") =>
            /\ turn.interestedIndex = NoIndex
            /\ turn.selectedOfferId = 0
            /\ turn.branch # "selection"

\* the ids of an array, as a set
IdSet(ids) == {ids[i] : i \in 1..Len(ids)}

\* C37: whenever a turn sets selectedOfferId, the id is a member of the
\* Session's lastProposedIds on that turn; and lastProposedIds only ever
\* receives the ids a turn proposes in offer messages: the offers of a
\* suggestions message are not recorded, so they cannot be selected.
SelectedWasProposed ==
    [][\A s \in Senders :
          turn'.from = s =>
              /\ turn'.selectedOfferId # 0 =>
                    /\ store[s] # NoDoc
                    /\ store'[s].lastProposedIds = store[s].lastProposedIds
                    /\ turn'.selectedOfferId \in IdSet(store[s].lastProposedIds)
              /\ store'[s] # NoDoc =>
                    /\ store'[s].lastProposedIds =
                          (IF store[s] = NoDoc THEN <<>> ELSE store[s].lastProposedIds)
                              \o turn'.toPropose
                    /\ IdSet(turn'.toPropose) \subseteq Shown(turn'.out, "offer")
                    /\ Shown(turn'.out, "suggestions") # {} => turn'.toPropose = <<>>]_vars

\* C37's case: the second offer of a proposed batch of two is selected
SecondOfBatchSelected ==
    \E s \in Senders :
        /\ Handled(s) /\ turn.branch = "selection" /\ turn.interestedIndex = 1
        /\ Len(store[s].lastProposedIds) = 2
        /\ turn.selectedOfferId = store[s].lastProposedIds[2]

====
